---- MODULE Spec2Model ----
(***************************************************************************)
(* Pairs-trading engine of src/main.py (class PairsTrading) together with  *)
(* the pair candidate of src/pair.py and the open position of              *)
(* src/trading_pair.py.                                                    *)
(*                                                                         *)
(* Fixed point: prices, intercepts, residual means and residual standard   *)
(* deviations are integers in hundredths (100 stands for 1.00); the band   *)
(* sizes, correlations and p-values are in hundredths as well, so that     *)
(*   error < mean_error - 2.32 * epsilon                                    *)
(* reads  100 * error < 100 * mean_error - 232 * epsilon.                   *)
(* One on_data call runs in four consecutive steps, tracked by pc:         *)
(*   Ingest (lines 71-73), Regenerate (76-78), ClosePositions (81-108),    *)
(*   EnterPositions (111-134).                                             *)
(*                                                                         *)
(* The module also holds the polling bots of src/fx_paper_trading_bot.py   *)
(* and src/ftmo_mean_reversion.py (class MovingMeanReversion), under the   *)
(* specification BotSpec; Spec is the engine.  Each specification keeps    *)
(* the variables of the other program at rest.                             *)
(***************************************************************************)
EXTENDS Integers, Sequences, FiniteSets, TLC

VARIABLES
    pc,                 \* position inside on_data: "idle", "regen", "close", "entry"
    time,               \* self.time, in days
    _regenerate_time,   \* self._regenerate_time, in days (-1 is datetime.min)
    prices,             \* symbol -> prices[0].close of its SymbolData
    held,               \* symbol -> bars in the buffer of its SymbolData, up to MinBars
    _pair_list,         \* self._pair_list: sequence of indexes into Combinations
    pairs,              \* index into Combinations -> fields of the Pairs object
    _selected_pair,     \* self._selected_pair: sequence of indexes into Combinations
    _trading_pairs,     \* self._trading_pairs: dict in insertion order, as a sequence
    orders,             \* market_order calls of the current on_data, in call order
    gateway,            \* pair -> entry order pairs not yet offset by closing order pairs
    dropped,            \* pair -> the position lines 83-88 closed, until the next entry
    submitted,          \* pair -> the quantities market_order was called with, summed per leg
    unfilled,           \* indexes into orders of the entry orders the brokerage did not fill
    stats,              \* what the statistics library answered to the _generate_pairs
                        \* call of line 77 that has just returned (None otherwise)
    \* MovingMeanReversion (fx_paper_trading_bot.py, ftmo_mean_reversion.py)
    symbols,            \* self.symbols: the instruments of the bot, in order
    step,               \* position inside run: "off", "fetch", "manage", "execute", "sleep"
    utcnow,             \* datetime.now(timezone.utc), in ticks
    priceHistory,       \* symbol -> the deque of closes, oldest first
    position,           \* symbol -> net units the broker holds
    entryTimeBySymbol,  \* symbol -> None, or the time of the entry
    tradesTodayCount,   \* self.tradesTodayCount
    currentDay,         \* self.currentDay: None, or a date
    sent,               \* place_order calls of the current run iteration, in call order
    fills               \* UTC date -> place_order calls that reported success on it

engine == <<pc, time, _regenerate_time, prices, held, _pair_list, pairs, _selected_pair,
            _trading_pairs, orders, gateway, dropped, submitted, unfilled, stats>>

bot == <<symbols, step, utcnow, priceHistory, position, entryTimeBySymbol,
         tradesTodayCount, currentDay, sent, fills>>

vars == <<engine, bot>>

-----------------------------------------------------------------------------
(* Bounds of the model *)

MaxTime == 20           \* the feed stops after this many days
MaxUnfilled == 1        \* entry orders of one update the brokerage leaves unfilled
MinBars == 2            \* bars a buffer must hold for SymbolData.is_ready

(* Program constants.  The universe and the cap are scaled down together  *)
(* (20 tickers and 10 pairs in the source) so that the candidate pairs     *)
(* still outnumber the cap.                                                *)

NumSymbols == 3         \* len(_symbols)
_pair_num == 2
_leverage == 1
_min_corr_threshold == 90
_open_size == 232
_close_size == 50
_stop_loss_size == 600
RegenerateDays == 5
Cash == 50000

\* the days between two consecutive updates the feed delivers: the second
\* update after a refresh lands exactly on _regenerate_time
Gaps == {RegenerateDays}

\* None is the empty sequence and a value x that is set is <<x>>
None == <<>>
Some(x) == <<x>>

Symbols == 1..NumSymbols

Range(s) == {s[i] : i \in 1..Len(s)}

\* itertools.combinations(range(1..n), 2), in its order
RECURSIVE CombinationsFrom(_, _)
CombinationsFrom(a, n) ==
    IF a >= n THEN <<>>
    ELSE [i \in 1..(n - a) |-> <<a, a + i>>] \o CombinationsFrom(a + 1, n)

\* combinations(self._symbol_data.items(), 2)
Combinations == CombinationsFrom(1, NumSymbols)

Pairs == 1..Len(Combinations)

PairA(p) == Combinations[p][1]
PairB(p) == Combinations[p][2]

\* SymbolData.is_ready for a buffer that holds n bars
IsReady(n) == n >= MinBars

\* the symbols whose history does not fill the buffer when initialize runs
NotReadyAtStart == {{}, {1}}

\* self._pair_list after the loop of lines 43-45, with the buffers at `hld`
PairList(hld) ==
    SelectSeq([p \in Pairs |-> p],
              LAMBDA p : IsReady(hld[PairA(p)]) /\ IsReady(hld[PairB(p)]))

\* SymbolData.update for the symbols with a bar in the slice
AfterUpdate(hld, bars) ==
    [s \in Symbols |->
        IF s \in DOMAIN bars /\ hld[s] < MinBars THEN hld[s] + 1 ELSE hld[s]]

-----------------------------------------------------------------------------
(* The closes the market data feed delivers: the first symbol moves over a *)
(* grid around 10.00, the other symbols stay at 10.00.                     *)

Offsets == {-700, -250, -50, -40, 0, 40, 50, 100, 232, 250, 600, 700}

PriceChoices(s) ==
    IF s = 1 THEN {1000 + o : o \in Offsets} ELSE {1000}

\* the slices of the feed: a close for each symbol that has a bar; the first
\* symbol may have no bar in a slice (data.bars.contains_key is false for it)
Slices ==
    UNION { { bars \in [S -> UNION {PriceChoices(s) : s \in Symbols}] :
                \A s \in S : bars[s] \in PriceChoices(s) } :
            S \in {Symbols, Symbols \ {1}} }

-----------------------------------------------------------------------------
(* What the statistics library answers for one pair at one refresh:        *)
(* corr from DataFrame.corr, coint_p from coint, the OLS fit (intercept,   *)
(* slope), the mean and standard deviation of its residuals, and the       *)
(* p-value of adfuller on the residuals.                                   *)

Evaluation(corr, coint_p, intercept, slope, mean_error, epsilon, adf_p) ==
    [corr |-> corr, coint_p |-> coint_p, intercept |-> intercept, slope |-> slope,
     mean_error |-> mean_error, epsilon |-> epsilon, adf_p |-> adf_p]

Evaluations ==
    { Evaluation(85, 1, 0, 1, 0, 100, 1),        \* correlation below the threshold
      Evaluation(95, 50, 0, 1, 0, 100, 1),       \* correlated, not cointegrated
      Evaluation(95, 1, 0, 1, 0, 100, 1),        \* selected, unit band around 0
      Evaluation(97, 2, -1060, 2, 10, 150, 3),   \* selected, another fit
      Evaluation(92, 1, -10, 1, 0, 0, 2),        \* selected, residuals all equal
      Evaluation(95, 1, 0, 1, 0, 100, 7) }       \* cointegrated, residuals not stationary

\* the evaluations the library gives candidate p: any of them for the pair of
\* the first two symbols, those with correlation 0.95 for the other pair of the
\* first symbol, the remaining ones for a pair without the first symbol
EvaluationsOf(p) ==
    IF PairA(p) = 1 /\ PairB(p) = 2 THEN Evaluations
    ELSE IF PairA(p) = 1 THEN {ev \in Evaluations : ev.corr = 95}
    ELSE {ev \in Evaluations : ev.corr # 95}

\* what the library can answer to one _generate_pairs call over the list lst
LibraryAnswers(lst) ==
    {ev \in [Range(lst) -> Evaluations] : \A p \in Range(lst) : ev[p] \in EvaluationsOf(p)}

\* Pairs.__init__
NewPair == [model |-> None, mean_error |-> 0, epsilon |-> 0, stationary_p |-> None]

\* Pairs.cointegration_test: the value it returns
CointegrationTest(ev) == ~(ev.coint_p >= 5)

\* a cointegration_test that resets the pair when the test fails
AfterCointegrationTestResets(pr, ev) ==
    IF ev.coint_p >= 5 THEN NewPair
    ELSE [model |-> Some([intercept |-> ev.intercept, slope |-> ev.slope]),
          mean_error |-> ev.mean_error,
          epsilon |-> ev.epsilon,
          stationary_p |-> Some(ev.adf_p)]

\* Pairs.cointegration_test: the fields of the pair after the call
AfterCointegrationTest(pr, ev) ==
    IF ev.coint_p >= 5 THEN pr
    ELSE [model |-> Some([intercept |-> ev.intercept, slope |-> ev.slope]),
          mean_error |-> ev.mean_error,
          epsilon |-> ev.epsilon,
          stationary_p |-> Some(ev.adf_p)]

\* list.sort(key = ...): stable, ascending in key
SortByKey(s, key) ==
    LET n == Len(s)
        rank(i) == 1 + Cardinality({j \in 1..n :
                        \/ key[s[j]] < key[s[i]]
                        \/ key[s[j]] = key[s[i]] /\ j < i})
    IN  [r \in 1..n |-> s[CHOOSE i \in 1..n : rank(i) = r]]

\* a selector that forgets the cap of lines 64-65
TruncateNever(s, k) == s

\* a cap that keeps the last k pairs of the list
TruncateTail(s, k) == IF Len(s) > k THEN SubSeq(s, Len(s) - k + 1, Len(s)) ELSE s

\* a cap that lets one pair more than k through
TruncateOneMore(s, k) == IF Len(s) > k + 1 THEN SubSeq(s, 1, k + 1) ELSE s

\* selected_pair[:k]
Truncate(s, k) == IF Len(s) > k THEN SubSeq(s, 1, k) ELSE s

\* a refresh that fits a pair once and keeps that fit ever after
PairsAfterGenerateFitOnce(prs, ev) ==
    [p \in Pairs |->
        IF p \notin DOMAIN ev \/ ev[p].corr < _min_corr_threshold \/ prs[p].model # None
        THEN prs[p]
        ELSE AfterCointegrationTest(prs[p], ev[p])]

\* the pairs after the loop of _generate_pairs (lines 49-57): cointegration_test
\* runs on the pairs that pass the correlation filter
PairsAfterGenerate(prs, ev) ==
    [p \in Pairs |->
        IF p \notin DOMAIN ev \/ ev[p].corr < _min_corr_threshold THEN prs[p]
        ELSE AfterCointegrationTest(prs[p], ev[p])]

\* a filter that does not read stationary_p
SurvivesNotStationary(prs, ev, p) ==
    /\ p \in DOMAIN ev
    /\ ~(ev[p].corr < _min_corr_threshold)
    /\ CointegrationTest(ev[p])

\* the filter of _generate_pairs (lines 51-57) for one pair of _pair_list
Survives(prs, ev, p) ==
    /\ p \in DOMAIN ev
    /\ ~(ev[p].corr < _min_corr_threshold)
    /\ CointegrationTest(ev[p])
    /\ PairsAfterGenerate(prs, ev)[p].stationary_p[1] < 5

\* selected_pair at line 59, in _pair_list order
Survivors(prs, ev) ==
    SelectSeq([p \in Pairs |-> p], LAMBDA p : Survives(prs, ev, p))

\* a selector that returns the capped list as line 65 leaves it
GeneratePairsNoResort(prs, ev) ==
    Truncate(SortByKey(Survivors(prs, ev), [p \in DOMAIN ev |-> 0 - ev[p].corr]), _pair_num)

\* the value _generate_pairs returns (lines 59-68)
GeneratePairs(prs, ev) ==
    LET selected == Survivors(prs, ev)
        after == PairsAfterGenerate(prs, ev)
        byCorr == SortByKey(selected, [p \in DOMAIN ev |-> 0 - ev[p].corr])
        capped == Truncate(byCorr, _pair_num)
    IN  IF Len(selected) = 0 THEN <<>>
        ELSE SortByKey(capped, [p \in Range(capped) |-> after[p].stationary_p[1]])

-----------------------------------------------------------------------------
(* Orders and open positions *)

\* one market_order call; pair and kind record which statement of on_data made it
Order(symbol, quantity, p, kind) ==
    [symbol |-> symbol, quantity |-> quantity, pair |-> p, kind |-> kind]

\* TradingPair.__init__, keyed by its pair; ticket_a and ticket_b hold the
\* quantity of the order ticket
TradingPair(p, ticket_a, ticket_b, intercept, slope, mean_error, epsilon) ==
    [pair |-> p, ticket_a |-> ticket_a, ticket_b |-> ticket_b,
     model_intercept |-> intercept, model_slope |-> slope,
     mean_error |-> mean_error, epsilon |-> epsilon]

\* the keys of the dict
Keys(tps) == {tps[i].pair : i \in 1..Len(tps)}

\* d[k] = v: a new key goes last, an existing key keeps its place
DictSet(tps, tp) ==
    IF tp.pair \in Keys(tps)
    THEN [i \in 1..Len(tps) |-> IF tps[i].pair = tp.pair THEN tp ELSE tps[i]]
    ELSE Append(tps, tp)

\* the deviation of the spread from the fitted line (lines 91 and 115)
Error(intercept, slope, price_a, price_b) ==
    price_a - (intercept + slope * price_b)

\* an exit that reads the intercept and slope of the pair's live model
PositionErrorLive(tp, prc) ==
    Error(pairs[tp.pair].model[1].intercept, pairs[tp.pair].model[1].slope,
          prc[PairA(tp.pair)], prc[PairB(tp.pair)])

\* the error of an open position under its own snapshot (line 91)
PositionError(tp, prc) ==
    Error(tp.model_intercept, tp.model_slope, prc[PairA(tp.pair)], prc[PairB(tp.pair)])

\* an exit of the long spread without the stop-loss of line 96
ExitLongNoStop(tp, error) ==
    /\ tp.ticket_a > 0
    /\ 100 * error > 100 * tp.mean_error - _close_size * tp.epsilon

\* the condition of lines 94-96
ExitLong(tp, error) ==
    /\ tp.ticket_a > 0
    /\ \/ 100 * error > 100 * tp.mean_error - _close_size * tp.epsilon
       \/ 100 * error < 100 * tp.mean_error - _stop_loss_size * tp.epsilon

\* an exit of the short spread with the close band of the long spread
ExitShortLongBand(tp, error) ==
    /\ tp.ticket_a < 0
    /\ \/ 100 * error < 100 * tp.mean_error - _close_size * tp.epsilon
       \/ 100 * error > 100 * tp.mean_error + _stop_loss_size * tp.epsilon

\* the condition of lines 102-104
ExitShort(tp, error) ==
    /\ tp.ticket_a < 0
    /\ \/ 100 * error < 100 * tp.mean_error + _close_size * tp.epsilon
       \/ 100 * error > 100 * tp.mean_error + _stop_loss_size * tp.epsilon

\* a closing loop that reads the active set short of its last pair
CloseKindPartialSet(tp, sel, prc) ==
    IF tp.pair \notin Range(SubSeq(sel, 1, Len(sel) - 1)) THEN "forced"
    ELSE IF ExitLong(tp, PositionError(tp, prc)) THEN "exit_long"
    ELSE IF ExitShort(tp, PositionError(tp, prc)) THEN "exit_short"
    ELSE "keep"

\* a closing loop without the membership test of line 83
CloseKindBandsOnly(tp, sel, prc) ==
    IF ExitLong(tp, PositionError(tp, prc)) THEN "exit_long"
    ELSE IF ExitShort(tp, PositionError(tp, prc)) THEN "exit_short"
    ELSE "keep"

\* which statement of the closing loop (lines 81-108) acts on an open position
CloseKind(tp, sel, prc) ==
    IF tp.pair \notin Range(sel) THEN "forced"
    ELSE IF ExitLong(tp, PositionError(tp, prc)) THEN "exit_long"
    ELSE IF ExitShort(tp, PositionError(tp, prc)) THEN "exit_short"
    ELSE "keep"

\* a close that repeats the entry orders instead of reversing them
ClosingOrdersSameSign(tp, kind) ==
    << Order(PairA(tp.pair), tp.ticket_a, tp.pair, kind),
       Order(PairB(tp.pair), tp.ticket_b, tp.pair, kind) >>

\* a close that sends the order of leg A twice
ClosingOrdersTwice(tp, kind) ==
    << Order(PairA(tp.pair), 0 - tp.ticket_a, tp.pair, kind),
       Order(PairA(tp.pair), 0 - tp.ticket_a, tp.pair, kind),
       Order(PairB(tp.pair), 0 - tp.ticket_b, tp.pair, kind) >>

\* the two closing orders of lines 84-85, 97-98 and 105-106
ClosingOrders(tp, kind) ==
    << Order(PairA(tp.pair), 0 - tp.ticket_a, tp.pair, kind),
       Order(PairB(tp.pair), 0 - tp.ticket_b, tp.pair, kind) >>

\* the market_order calls of the closing loop, over the copy of the dict
RECURSIVE CloseLoopOrders(_, _, _)
CloseLoopOrders(tps, sel, prc) ==
    IF tps = <<>> THEN <<>>
    ELSE LET tp == Head(tps)
             kind == CloseKind(tp, sel, prc)
         IN  (IF kind = "keep" THEN <<>> ELSE ClosingOrders(tp, kind))
             \o CloseLoopOrders(Tail(tps), sel, prc)

\* a closing loop whose forced close forgets the pop of line 86
CloseLoopDictForcedStays(tps, sel, prc) ==
    SelectSeq(tps, LAMBDA tp : CloseKind(tp, sel, prc) \in {"keep", "forced"})

\* a closing loop whose forced close keeps the position of the pair placed
\* first in the dict
CloseLoopDictKeepsFirst(tps, sel, prc) ==
    SelectSeq(tps, LAMBDA tp : CloseKind(tp, sel, prc) = "keep" \/ tp = Head(tps))

\* the dict after the closing loop: every closed position is popped
CloseLoopDict(tps, sel, prc) ==
    SelectSeq(tps, LAMBDA tp : CloseKind(tp, sel, prc) = "keep")

\* the symbol the entry loop passes to calculate_order_quantity: the loop
\* variable of line 71 after the loop, the last key of _symbol_data
symbol == NumSymbols

\* the shares of symbol sym the open positions `tps` have ordered and not
\* reversed: the holdings and open orders of the portfolio in sym
RECURSIVE Holdings(_, _)
Holdings(sym, tps) ==
    IF tps = <<>> THEN 0
    ELSE (IF PairA(Head(tps).pair) = sym THEN Head(tps).ticket_a ELSE 0)
         + (IF PairB(Head(tps).pair) = sym THEN Head(tps).ticket_b ELSE 0)
         + Holdings(sym, Tail(tps))

\* QCAlgorithm.calculate_order_quantity(symbol, sign * _leverage / _pair_num / 2):
\* the order that takes the portfolio from what it holds of sym to the whole
\* number of shares worth that share of the portfolio value, the portfolio
\* value taken at the cash of set_cash (in hundredths)
CalculateOrderQuantity(sym, sign, prc, tps) ==
    sign * ((100 * Cash * _leverage) \div (_pair_num * 2 * prc[sym]))
        - Holdings(sym, tps)

\* the error of a pair under its live model (lines 113-115)
LiveError(pr, p, prc) ==
    Error(pr.model[1].intercept, pr.model[1].slope, prc[PairA(p)], prc[PairB(p)])

\* an entry that also fires with the error on the band
EntryKindOnBand(pr, error) ==
    IF 100 * error <= 100 * pr.mean_error - _open_size * pr.epsilon THEN "long"
    ELSE IF 100 * error >= 100 * pr.mean_error + _open_size * pr.epsilon THEN "short"
    ELSE "none"

\* the branch of lines 118-134 a flat pair takes
EntryKind(pr, error) ==
    IF 100 * error < 100 * pr.mean_error - _open_size * pr.epsilon THEN "long"
    ELSE IF 100 * error > 100 * pr.mean_error + _open_size * pr.epsilon THEN "short"
    ELSE "none"

\* an entry loop without the test of line 117
MayEnterAlways(p, tps) == TRUE

\* whether the entry loop trades pair p (line 117)
MayEnter(p, tps) == p \notin Keys(tps)

\* what one iteration of the entry loop does for pair p: "long", "short" or "none"
EntryStep(p, tps, prs, prc) ==
    IF MayEnter(p, tps) THEN EntryKind(prs[p], LiveError(prs[p], p, prc)) ELSE "none"

\* qty_a and qty_b of lines 119-120 and 128-129
EntryQtyA(kind, prc, tps) ==
    CalculateOrderQuantity(symbol, IF kind = "long" THEN 1 ELSE -1, prc, tps)
EntryQtyB(kind, prc, tps) ==
    CalculateOrderQuantity(symbol, IF kind = "long" THEN -1 ELSE 1, prc, tps)

\* the two entry orders of lines 121-122 and 130-131
EntryOrders(p, kind, prc, tps) ==
    << Order(PairA(p), EntryQtyA(kind, prc, tps), p, kind),
       Order(PairB(p), EntryQtyB(kind, prc, tps), p, kind) >>

\* the TradingPair of lines 124 and 133
EntryPosition(p, kind, pr, prc, tps) ==
    TradingPair(p, EntryQtyA(kind, prc, tps), EntryQtyB(kind, prc, tps),
                pr.model[1].intercept, pr.model[1].slope, pr.mean_error, pr.epsilon)

\* the entry loop (lines 111-134) over the rest `sel` of _selected_pair:
\* the dict and the orders it ends with
RECURSIVE EntryLoop(_, _, _, _, _)
EntryLoop(sel, tps, ords, prs, prc) ==
    IF sel = <<>> THEN [dict |-> tps, orders |-> ords]
    ELSE LET p == Head(sel)
             kind == EntryStep(p, tps, prs, prc)
         IN  IF kind = "none"
             THEN EntryLoop(Tail(sel), tps, ords, prs, prc)
             ELSE EntryLoop(Tail(sel),
                            DictSet(tps, EntryPosition(p, kind, prs[p], prc, tps)),
                            ords \o EntryOrders(p, kind, prc, tps),
                            prs, prc)

\* entry order pairs minus closing order pairs among `ords`, for pair p
NetEntries(ords, p) ==
    LET entries == {i \in 1..Len(ords) :
                        ords[i].pair = p /\ ords[i].kind \in {"long", "short"}}
        closes == {i \in 1..Len(ords) :
                        ords[i].pair = p /\ ords[i].kind \notin {"long", "short"}}
    IN  (Cardinality(entries) - Cardinality(closes)) \div 2

\* the sum of the quantities of the orders `ords`
RECURSIVE SumQuantity(_)
SumQuantity(ords) ==
    IF ords = <<>> THEN 0 ELSE Head(ords).quantity + SumQuantity(Tail(ords))

\* submitted after the market_order calls `ords`
AfterOrders(sub, ords) ==
    [p \in Pairs |->
        [a |-> sub[p].a + SumQuantity(SelectSeq(ords, LAMBDA o :
                              o.pair = p /\ o.symbol = PairA(p))),
         b |-> sub[p].b + SumQuantity(SelectSeq(ords, LAMBDA o :
                              o.pair = p /\ o.symbol = PairB(p)))]]

-----------------------------------------------------------------------------
(* The engine *)

\* no MovingMeanReversion object exists
NoBot ==
    /\ symbols = <<>>
    /\ step = "off"
    /\ utcnow = 0
    /\ priceHistory = <<>>
    /\ position = <<>>
    /\ entryTimeBySymbol = <<>>
    /\ tradesTodayCount = 0
    /\ currentDay = None
    /\ sent = <<>>
    /\ fills = <<>>

\* PairsTrading.initialize
Init ==
    /\ pc = "idle"
    /\ time = 0
    /\ _regenerate_time = -1
    /\ prices = [s \in Symbols |-> 1000]
    /\ \E late \in NotReadyAtStart :
          /\ held = [s \in Symbols |-> IF s \in late THEN 0 ELSE MinBars]
          /\ _pair_list = PairList(held)
    /\ pairs = [p \in Pairs |-> NewPair]
    /\ _selected_pair = <<>>
    /\ _trading_pairs = <<>>
    /\ orders = <<>>
    /\ gateway = [p \in Pairs |-> 0]
    /\ dropped = [p \in Pairs |-> None]
    /\ submitted = [p \in Pairs |-> [a |-> 0, b |-> 0]]
    /\ unfilled = {}
    /\ stats = None
    /\ NoBot

\* on_data, lines 71-73: the engine has advanced self.time, and every symbol
\* with a bar in the slice takes the bar's close
Ingest ==
    /\ pc = "idle"
    /\ \E dt \in Gaps :
          /\ time + dt <= MaxTime
          /\ time' = time + dt
    /\ \E bars \in Slices :
          /\ prices' = [s \in Symbols |-> IF s \in DOMAIN bars THEN bars[s] ELSE prices[s]]
          /\ held' = AfterUpdate(held, bars)
    /\ orders' = <<>>
    /\ unfilled' = {}
    /\ pc' = "regen"
    /\ UNCHANGED <<_regenerate_time, _pair_list, pairs, _selected_pair, _trading_pairs,
                   gateway, dropped, submitted, stats>>
    /\ UNCHANGED bot

\* a test of line 76 that also holds when the two times are equal
RefreshDueAtBoundary == _regenerate_time <= time

\* the test of line 76
RefreshDue == _regenerate_time < time

\* on_data, lines 76-78, the refresh is due
RegenerateDue ==
    /\ pc = "regen"
    /\ RefreshDue
    /\ \E ev \in LibraryAnswers(_pair_list) :
          /\ pairs' = PairsAfterGenerate(pairs, ev)
          /\ _selected_pair' = GeneratePairs(pairs, ev)
          /\ stats' = Some(ev)
    /\ _regenerate_time' = time + RegenerateDays
    /\ pc' = "close"
    /\ UNCHANGED <<time, prices, held, _pair_list, _trading_pairs, orders, gateway,
                   dropped, submitted, unfilled>>
    /\ UNCHANGED bot

\* an update without a refresh that empties the active set
RegenerateSkipClears ==
    /\ pc = "regen"
    /\ ~RefreshDue
    /\ _selected_pair' = <<>>
    /\ pc' = "close"
    /\ UNCHANGED <<time, _regenerate_time, prices, held, _pair_list, pairs,
                   _trading_pairs, orders, gateway, dropped, submitted, unfilled, stats>>
    /\ UNCHANGED bot

\* on_data, line 76, the refresh is not due
RegenerateSkip ==
    /\ pc = "regen"
    /\ ~RefreshDue
    /\ pc' = "close"
    /\ UNCHANGED <<time, _regenerate_time, prices, held, _pair_list, pairs,
                   _selected_pair, _trading_pairs, orders, gateway, dropped, submitted,
                   unfilled, stats>>
    /\ UNCHANGED bot

\* on_data, lines 81-108: the closing loop
\* (the answers of the statistics library are out of scope from here on)
ClosePositions ==
    /\ pc = "close"
    /\ orders' = orders \o CloseLoopOrders(_trading_pairs, _selected_pair, prices)
    /\ _trading_pairs' = CloseLoopDict(_trading_pairs, _selected_pair, prices)
    /\ gateway' = [p \in Pairs |->
                     gateway[p] + NetEntries(orders', p) - NetEntries(orders, p)]
    /\ dropped' = [p \in Pairs |->
                     IF \E tp \in Range(_trading_pairs) :
                           tp.pair = p /\ CloseKind(tp, _selected_pair, prices) = "forced"
                     THEN Some(CHOOSE tp \in Range(_trading_pairs) : tp.pair = p)
                     ELSE dropped[p]]
    /\ submitted' = AfterOrders(submitted,
                                CloseLoopOrders(_trading_pairs, _selected_pair, prices))
    /\ pc' = "entry"
    /\ stats' = None
    /\ UNCHANGED <<time, _regenerate_time, prices, held, _pair_list, pairs,
                   _selected_pair, unfilled>>
    /\ UNCHANGED bot

\* an entry loop whose market_order calls come ahead of those of the closing loop
EnterPositionsBeforeCloses ==
    /\ pc = "entry"
    /\ LET done == EntryLoop(_selected_pair, _trading_pairs, <<>>, pairs, prices)
       IN  /\ _trading_pairs' = done.dict
           /\ orders' = done.orders \o orders
           /\ gateway' = [p \in Pairs |-> gateway[p] + NetEntries(done.orders, p)]
           /\ dropped' = [p \in Pairs |->
                            IF NetEntries(done.orders, p) > 0 THEN None ELSE dropped[p]]
           /\ submitted' = AfterOrders(submitted, done.orders)
           /\ unfilled' = {}
    /\ pc' = "idle"
    /\ UNCHANGED <<time, _regenerate_time, prices, held, _pair_list, pairs,
                   _selected_pair, stats>>
    /\ UNCHANGED bot

\* on_data, lines 111-134: the entry loop; market_order hands back a ticket for
\* every order, filled by the brokerage or not, and on_data returns
EnterPositions ==
    /\ pc = "entry"
    /\ LET done == EntryLoop(_selected_pair, _trading_pairs, orders, pairs, prices)
       IN  /\ _trading_pairs' = done.dict
           /\ orders' = done.orders
           /\ gateway' = [p \in Pairs |->
                            gateway[p] + NetEntries(done.orders, p) - NetEntries(orders, p)]
           /\ dropped' = [p \in Pairs |->
                            IF NetEntries(done.orders, p) > NetEntries(orders, p)
                            THEN None ELSE dropped[p]]
           /\ submitted' = AfterOrders(submitted,
                               SubSeq(done.orders, Len(orders) + 1, Len(done.orders)))
           /\ unfilled' \in {u \in SUBSET ((Len(orders) + 1)..Len(done.orders)) :
                               Cardinality(u) <= MaxUnfilled}
    /\ pc' = "idle"
    /\ UNCHANGED <<time, _regenerate_time, prices, held, _pair_list, pairs,
                   _selected_pair, stats>>
    /\ UNCHANGED bot

Next ==
    \/ Ingest
    \/ RegenerateDue
    \/ RegenerateSkip
    \/ ClosePositions
    \/ EnterPositions

Spec == Init /\ [][Next]_vars

-----------------------------------------------------------------------------
(* The polling bots: class MovingMeanReversion of fx_paper_trading_bot.py   *)
(* and of ftmo_mean_reversion.py.  The two classes differ in their          *)
(* instruments and in the broker API they call; run, manage_open_positions  *)
(* and execute_trades are the same code.  Closes are integers, the clock    *)
(* counts ticks, TicksPerDay of them to a UTC day, and run makes one        *)
(* iteration a tick.                                                        *)

TicksPerDay == 3        \* ticks of the clock in one UTC day
MaxNow == 4             \* the clock stops here
MaxPosition == 1        \* the broker rejects an order that would take |net units| beyond

maxTradesPerDay == 2
windowSize == 2         \* closes in a full window (2 * 1440 in the source)
deviationThreshold == 5 \* 0.005, in thousandths
positionSize == 1       \* self.positionSize, the units of one order

\* self.fx_pairs of the one class and of the other
fx_pairs == {<<"USD_CHF", "USD_NOK">>, <<"USDCHF">>}

\* the closes a candle can have
Closes == {0, 1000, 1002}

\* get_historical_data(symbol, 'M1', windowSize)['close']: the windowSize
\* closes asked for, or none when the request fails
Frames == {<<>>} \cup [1..windowSize -> Closes]

\* deque(maxlen = windowSize).extend(xs)
Extend(dq, xs) ==
    LET all == dq \o xs
    IN  IF Len(all) > windowSize
        THEN SubSeq(all, Len(all) - windowSize + 1, Len(all))
        ELSE all

RECURSIVE Sum(_)
Sum(xs) == IF xs = <<>> THEN 0 ELSE Head(xs) + Sum(Tail(xs))

\* datetime.date()
Date(t) == t \div TicksPerDay

\* len(prices) * (current_price - rolling_mean), the last close being the
\* current price and rolling_mean being Sum(prices) / len(prices)
Excess(xs) == Len(xs) * xs[Len(xs)] - Sum(xs)

\* abs((current_price - rolling_mean) / rolling_mean) > deviationThreshold,
\* for a rolling_mean that is not 0
Deviates(xs) == 1000 * (IF Excess(xs) < 0 THEN 0 - Excess(xs) ELSE Excess(xs))
                    > deviationThreshold * (IF Sum(xs) < 0 THEN 0 - Sum(xs) ELSE Sum(xs))

\* direction = -1 if dev > 0 else 1
Direction(xs) == IF Excess(xs) * Sum(xs) > 0 THEN -1 ELSE 1

\* calculate_order_quantity: the units of an order, with the sign of direction
BotOrderQuantity(direction) == direction * positionSize

\* one place_order call and what it returned
Placed(s, units, side, success) ==
    [symbol |-> s, units |-> units, side |-> side, success |-> success]

\* no PairsTrading algorithm runs
NoEngine ==
    /\ pc = "off"
    /\ time = 0
    /\ _regenerate_time = -1
    /\ prices = <<>>
    /\ held = <<>>
    /\ _pair_list = <<>>
    /\ pairs = <<>>
    /\ _selected_pair = <<>>
    /\ _trading_pairs = <<>>
    /\ orders = <<>>
    /\ gateway = <<>>
    /\ dropped = <<>>
    /\ submitted = <<>>
    /\ unfilled = {}
    /\ stats = None

\* MovingMeanReversion.__init__, every instrument of fx_pairs being available
BotInit ==
    /\ symbols \in fx_pairs
    /\ step = "fetch"
    /\ utcnow = 0
    /\ priceHistory = [s \in Range(symbols) |-> <<>>]
    /\ position = [s \in Range(symbols) |-> 0]
    /\ entryTimeBySymbol = [s \in Range(symbols) |-> None]
    /\ tradesTodayCount = 0
    /\ currentDay = None
    /\ sent = <<>>
    /\ fills = [d \in 0..Date(MaxNow) |-> 0]
    /\ NoEngine

\* run, the fetch of the price data and the test that every symbol has a
\* full window
FetchData ==
    /\ step = "fetch"
    /\ \E df \in [Range(symbols) -> Frames] :
          priceHistory' = [s \in Range(symbols) |-> Extend(priceHistory[s], df[s])]
    /\ step' = IF \A s \in Range(symbols) : Len(priceHistory'[s]) >= windowSize
               THEN "manage" ELSE "sleep"
    /\ sent' = <<>>
    /\ UNCHANGED <<symbols, utcnow, position, entryTimeBySymbol, tradesTodayCount,
                   currentDay, fills>>
    /\ UNCHANGED engine

\* what the broker answers while manage_open_positions handles one symbol:
\* whether the position request succeeds, the current price, and how many of
\* the open trades a close leaves open
ManageInputs == [read : BOOLEAN, price : Closes, left : 0..MaxPosition]

\* the net units of s after close_trade was called on each of its open trades
AfterCloses(units, left) ==
    IF units > left THEN left
    ELSE IF units < 0 - left THEN 0 - left
    ELSE units

\* manage_open_positions, the body of the loop for symbol s
ManageSymbol(s, in) ==
    LET current_position == IF in.read THEN position[s] ELSE 0
        entry_time == entryTimeBySymbol[s]
        history == priceHistory[s]
        timed == 2 * (utcnow - entry_time[1]) > TicksPerDay
        reverted == \/ current_position > 0 /\ Len(history) * in.price >= Sum(history)
                    \/ current_position < 0 /\ Len(history) * in.price <= Sum(history)
    IN  IF current_position = 0 \/ entry_time = None
        THEN [position |-> position[s], entry |-> entry_time]
        ELSE IF timed \/ reverted
        THEN [position |-> AfterCloses(position[s], in.left), entry |-> None]
        ELSE [position |-> position[s], entry |-> entry_time]

\* the answers that matter for symbol s: for a symbol that is flat or has no
\* entry time the loop goes on whatever the broker answered
ManageInputsOf(s) ==
    IF position[s] = 0 \/ entryTimeBySymbol[s] = None
    THEN {[read |-> TRUE, price |-> 0, left |-> 0]}
    ELSE ManageInputs

\* manage_open_positions
ManageOpenPositions ==
    /\ step = "manage"
    /\ \E in \in [Range(symbols) -> ManageInputs] :
          /\ \A s \in Range(symbols) : in[s] \in ManageInputsOf(s)
          /\ position' = [s \in Range(symbols) |-> ManageSymbol(s, in[s]).position]
          /\ entryTimeBySymbol' = [s \in Range(symbols) |-> ManageSymbol(s, in[s]).entry]
    /\ step' = "execute"
    /\ UNCHANGED <<symbols, utcnow, priceHistory, tradesTodayCount, currentDay, sent,
                   fills>>
    /\ UNCHANGED engine

\* a count that goes up with every order placed, filled or not
CountAfterAnyOrder(count, success) == count + 1

\* lines 361-362: the count after place_order returned
CountAfter(count, success) == IF success THEN count + 1 ELSE count

\* a test of the daily cap that lets the count pass the maximum by one
DayIsFullPastCap(count) == count > maxTradesPerDay

\* the test of lines 331 and 335 of fx_paper_trading_bot.py
DayIsFull(count) == count >= maxTradesPerDay

\* what the broker answers while execute_trades handles one symbol: whether
\* the position request succeeds and whether the order is filled
TradeInputs == [read : BOOLEAN, fill : BOOLEAN]

\* execute_trades, the loop over the symbols; st is the count, the entry
\* times, the broker's positions and the orders placed so far
RECURSIVE TradeLoop(_, _, _)
TradeLoop(syms, st, in) ==
    IF syms = <<>> \/ DayIsFull(st.count) THEN st
    ELSE LET s == Head(syms)
             current_position == IF in[s].read THEN st.position[s] ELSE 0
             history == priceHistory[s]
             direction == Direction(history)
             side == IF direction = -1 THEN "sell" ELSE "buy"
             qty == BotOrderQuantity(direction)
             held_after == st.position[s] + qty
             success == in[s].fill /\ held_after <= MaxPosition
                                   /\ held_after >= 0 - MaxPosition
             skip == \/ current_position # 0
                     \/ Len(history) < windowSize
                     \/ Sum(history) = 0
                     \/ ~Deviates(history)
             after == IF skip THEN st
                      ELSE [count |-> CountAfter(st.count, success),
                            entry |-> IF success
                                      THEN [st.entry EXCEPT ![s] = Some(utcnow)]
                                      ELSE st.entry,
                            position |-> IF success
                                         THEN [st.position EXCEPT ![s] = held_after]
                                         ELSE st.position,
                            sent |-> Append(st.sent, Placed(s, qty, side, success))]
         IN  TradeLoop(Tail(syms), after, in)

\* the count execute_trades starts its loop with (lines 326-329)
CountOfToday == IF currentDay # Some(Date(utcnow)) THEN 0 ELSE tradesTodayCount

\* execute_trades
ExecuteTrades ==
    /\ step = "execute"
    /\ currentDay' = Some(Date(utcnow))
    /\ \E in \in [Range(symbols) -> TradeInputs] :
          LET done == TradeLoop(symbols,
                                [count |-> CountOfToday, entry |-> entryTimeBySymbol,
                                 position |-> position, sent |-> sent], in)
          IN  /\ tradesTodayCount' = done.count
              /\ entryTimeBySymbol' = done.entry
              /\ position' = done.position
              /\ sent' = done.sent
              /\ fills' = [fills EXCEPT ![Date(utcnow)] =
                               @ + Cardinality({i \in 1..Len(done.sent) :
                                                   done.sent[i].success})]
    /\ step' = "sleep"
    /\ UNCHANGED <<symbols, utcnow, priceHistory>>
    /\ UNCHANGED engine

\* run, the sleep to the next minute
Sleep ==
    /\ step = "sleep"
    /\ utcnow < MaxNow
    /\ utcnow' = utcnow + 1
    /\ step' = "fetch"
    /\ UNCHANGED <<symbols, priceHistory, position, entryTimeBySymbol, tradesTodayCount,
                   currentDay, sent, fills>>
    /\ UNCHANGED engine

BotNext ==
    \/ FetchData
    \/ ManageOpenPositions
    \/ ExecuteTrades
    \/ Sleep

BotSpec == BotInit /\ [][BotNext]_vars

-----------------------------------------------------------------------------
(* Vocabulary of the properties *)

\* the market_order calls of the step being taken
NewOrders == SubSeq(orders', Len(orders) + 1, Len(orders'))

\* the orders of `ords` made for pair p, in order
OrdersOf(ords, p) == SelectSeq(ords, LAMBDA o : o.pair = p)

EntryKinds == {"long", "short"}
CloseKinds == {"forced", "exit_long", "exit_short"}

\* the open positions, as a set
OpenPositions == Range(_trading_pairs)

\* the step being taken is the closing loop / the entry loop of on_data
InClosingLoop == pc = "close" /\ pc' = "entry"
InEntryLoop == pc = "entry" /\ pc' = "idle"

\* no refresh has run after the first one
FirstCycle == _regenerate_time <= 2 * RegenerateDays /\ _regenerate_time > 0

-----------------------------------------------------------------------------
\* C1: in every state each pair has at most one open position recorded in
\* _trading_pairs, and the entry order pairs submitted for a pair and not yet
\* offset by closing orders number at most one and exactly the recorded
\* positions: an entry is never submitted for a pair that holds a position.
C1_AtMostOneOpenPosition ==
    /\ Cardinality(Keys(_trading_pairs)) = Len(_trading_pairs)
    /\ \A p \in Pairs :
          gateway[p] = (IF p \in Keys(_trading_pairs) THEN 1 ELSE 0)

\* an update has ended in which the entry loop met an active pair outside its
\* open band that already held a position, and submitted nothing for it
C1_Witness ==
    /\ pc = "idle"
    /\ \E tp \in OpenPositions :
          /\ tp.pair \in Range(_selected_pair)
          /\ EntryKind(pairs[tp.pair], LiveError(pairs[tp.pair], tp.pair, prices)) # "none"
          /\ OrdersOf(orders, tp.pair) = <<>>

\* C2: the active set never holds more than _pair_num pairs, whatever the
\* statistics say about the candidates.
C2_ActiveSetWithinCap ==
    Len(_selected_pair) <= _pair_num

\* the first refresh has just run, every candidate passed both filters, and
\* the active set holds exactly _pair_num of them
C2_Witness ==
    /\ pc = "close"
    /\ FirstCycle
    /\ Cardinality(Pairs) > _pair_num
    /\ \A p \in Pairs : pairs[p].stationary_p # None /\ pairs[p].stationary_p[1] < 5
    /\ Len(_selected_pair) = _pair_num

\* C3: in the closing loop, every open position whose pair is not in the
\* active set is closed whatever its error: it leaves _trading_pairs, the gateway
\* holds nothing for it, and the orders made for it are exactly the two closing
\* orders of the forced close (no order of the exit or stop-loss rule).
C3_ForcedClose ==
    [][InClosingLoop =>
        \A tp \in OpenPositions :
            tp.pair \notin Range(_selected_pair) =>
                /\ tp.pair \notin Keys(_trading_pairs')
                /\ gateway'[tp.pair] = 0
                /\ OrdersOf(NewOrders, tp.pair) =
                      << Order(PairA(tp.pair), 0 - tp.ticket_a, tp.pair, "forced"),
                         Order(PairB(tp.pair), 0 - tp.ticket_b, tp.pair, "forced") >>]_vars

\* the closing loop has just force-closed a long position whose error, under
\* its own snapshot, lies strictly between the stop-loss and the exit band
C3_Witness ==
    /\ pc = "entry"
    /\ \E i \in 1..Len(orders) :
          LET p == orders[i].pair
          IN  /\ orders[i].kind = "forced"
              /\ p \notin Keys(_trading_pairs)
              /\ dropped[p] # None
              /\ LET tp == dropped[p][1]
                      error == PositionError(tp, prices)
                  IN  /\ tp.ticket_a > 0
                      /\ tp.epsilon > 0
                      /\ 100 * error < 100 * tp.mean_error - _close_size * tp.epsilon
                      /\ 100 * error > 100 * tp.mean_error - _stop_loss_size * tp.epsilon

\* C4: a position whose pair left the active set gets exactly one closing order
\* per leg in the closing loop that observes it, and for a pair that is flat the
\* closing loop makes no order and changes nothing (no position, nothing at
\* the gateway), on every later update.
C4_ClosedExactlyOnce ==
    [][InClosingLoop =>
        /\ \A tp \in OpenPositions :
              tp.pair \notin Range(_selected_pair) =>
                 /\ Len(SelectSeq(NewOrders, LAMBDA o :
                        o.pair = tp.pair /\ o.symbol = PairA(tp.pair))) = 1
                 /\ Len(SelectSeq(NewOrders, LAMBDA o :
                        o.pair = tp.pair /\ o.symbol = PairB(tp.pair))) = 1
                 /\ tp.pair \notin Keys(_trading_pairs')
        /\ \A p \in Pairs :
              p \notin Keys(_trading_pairs) =>
                 /\ OrdersOf(NewOrders, p) = <<>>
                 /\ p \notin Keys(_trading_pairs')
                 /\ gateway'[p] = 0 /\ gateway[p] = 0]_vars

\* a later update has run its closing loop over a pair that was force-closed
\* on an earlier update and is still flat and out of the active set
C4_Witness ==
    /\ pc = "entry"
    /\ \E p \in Pairs :
          /\ dropped[p] # None
          /\ p \notin Range(_selected_pair)
          /\ p \notin Keys(_trading_pairs)
          /\ OrdersOf(orders, p) = <<>>

-----------------------------------------------------------------------------
\* the snapshot of position tp is the live model of pair record pr
SnapshotOf(tp, pr) ==
    /\ pr.model # None
    /\ tp.model_intercept = pr.model[1].intercept
    /\ tp.model_slope = pr.model[1].slope
    /\ tp.mean_error = pr.mean_error
    /\ tp.epsilon = pr.epsilon

\* the error of position tp at the current prices, from its snapshot alone
FrozenError(tp) ==
    prices[PairA(tp.pair)] - (tp.model_intercept + tp.model_slope * prices[PairB(tp.pair)])

\* the exit or stop-loss rule fires for tp, from its snapshot and the prices alone
FrozenExit(tp) ==
    \/ /\ tp.ticket_a > 0
       /\ \/ 100 * FrozenError(tp) > 100 * tp.mean_error - _close_size * tp.epsilon
          \/ 100 * FrozenError(tp) < 100 * tp.mean_error - _stop_loss_size * tp.epsilon
    \/ /\ tp.ticket_a < 0
       /\ \/ 100 * FrozenError(tp) < 100 * tp.mean_error + _close_size * tp.epsilon
          \/ 100 * FrozenError(tp) > 100 * tp.mean_error + _stop_loss_size * tp.epsilon

\* the same rule read from the live model of the pair instead
LiveExit(tp) ==
    LET pr == pairs[tp.pair]
        error == LiveError(pr, tp.pair, prices)
    IN  \/ /\ tp.ticket_a > 0
           /\ \/ 100 * error > 100 * pr.mean_error - _close_size * pr.epsilon
              \/ 100 * error < 100 * pr.mean_error - _stop_loss_size * pr.epsilon
        \/ /\ tp.ticket_a < 0
           /\ \/ 100 * error < 100 * pr.mean_error + _close_size * pr.epsilon
              \/ 100 * error > 100 * pr.mean_error + _stop_loss_size * pr.epsilon

\* C5: a position recorded by the entry loop holds the intercept, slope,
\* mean_error and epsilon of the pair's live model at that moment; no step
\* changes the record of a position that stays open (a refresh that refits the
\* live model included); and in the closing loop a position whose pair is
\* still active is closed exactly when the exit rule fires on its snapshot and
\* the current prices.
C5_FrozenSnapshot ==
    [][/\ InEntryLoop =>
            \A tp \in Range(_trading_pairs') :
                tp.pair \notin Keys(_trading_pairs) => SnapshotOf(tp, pairs[tp.pair])
       /\ \A tp \in OpenPositions :
            tp.pair \in Keys(_trading_pairs') => tp \in Range(_trading_pairs')
       /\ InClosingLoop =>
            \A tp \in OpenPositions :
                tp.pair \in Range(_selected_pair) =>
                    (tp.pair \notin Keys(_trading_pairs') <=> FrozenExit(tp))]_vars

\* the closing loop has just kept a position of an active pair whose live model
\* was refitted since entry, although the rule read from the live model fires
C5_Witness ==
    /\ pc = "entry"
    /\ \E tp \in OpenPositions :
          /\ tp.pair \in Range(_selected_pair)
          /\ ~SnapshotOf(tp, pairs[tp.pair])
          /\ ~FrozenExit(tp)
          /\ LiveExit(tp)
          /\ OrdersOf(orders, tp.pair) = <<>>

\* the two closing orders of position tp, whatever statement made them
IsClosingPair(ords, tp) ==
    /\ Len(ords) = 2
    /\ ords[1].symbol = PairA(tp.pair) /\ ords[1].quantity = 0 - tp.ticket_a
    /\ ords[2].symbol = PairB(tp.pair) /\ ords[2].quantity = 0 - tp.ticket_b
    /\ ords[1].kind \in CloseKinds /\ ords[2].kind \in CloseKinds

\* C6: in the closing loop a long spread (leg A bought) whose pair is still
\* active is closed, by two closing orders, if and only if its error under
\* the snapshot is above mean_error - closeSize * epsilon or below
\* mean_error - stopLossSize * epsilon; otherwise its record stays as it is
\* and no order is made for the pair, in the closing loop and in the entry
\* loop after it.
C6_LongSpreadExit ==
    [][/\ InClosingLoop =>
            \A tp \in OpenPositions :
                (tp.ticket_a > 0 /\ tp.pair \in Range(_selected_pair)) =>
                    IF \/ 100 * FrozenError(tp) > 100 * tp.mean_error - _close_size * tp.epsilon
                       \/ 100 * FrozenError(tp) < 100 * tp.mean_error - _stop_loss_size * tp.epsilon
                    THEN /\ tp.pair \notin Keys(_trading_pairs')
                         /\ IsClosingPair(OrdersOf(NewOrders, tp.pair), tp)
                    ELSE /\ tp \in Range(_trading_pairs')
                         /\ OrdersOf(NewOrders, tp.pair) = <<>>
       /\ InEntryLoop =>
            \A tp \in OpenPositions :
                tp.ticket_a > 0 =>
                    /\ tp \in Range(_trading_pairs')
                    /\ OrdersOf(NewOrders, tp.pair) = <<>>]_vars

\* an update has ended that closed one long spread below its stop-loss band
\* and kept another one strictly between its stop-loss and exit bands
C6_Witness ==
    /\ pc = "entry"
    /\ FirstCycle
    /\ \E i \in 1..Len(orders) :
          LET p == orders[i].pair
              error == LiveError(pairs[p], p, prices)
          IN  /\ orders[i].kind = "exit_long"
              /\ pairs[p].epsilon > 0
              /\ 100 * error < 100 * pairs[p].mean_error - _stop_loss_size * pairs[p].epsilon
    /\ \E tp \in OpenPositions :
          /\ tp.ticket_a > 0
          /\ tp.epsilon > 0
          /\ ~FrozenExit(tp)
          /\ OrdersOf(orders, tp.pair) = <<>>

\* the open position of the scenarios: short spread, mean_error 0, epsilon 1
ScenarioShort == TradingPair(1, -1, 1, 0, 1, 0, 100)

\* C7: in the closing loop a short spread (leg A sold) whose pair is still
\* active is closed if and only if its error under the snapshot is below
\* mean_error + closeSize * epsilon or above mean_error + stopLossSize * epsilon;
\* with mean_error 0 and epsilon 1 the rule fires at error 0.4 by the close band
\* and at error 7 by the stop-loss alone.
C7_ShortSpreadExit ==
    /\ ExitShort(ScenarioShort, 40)
    /\ 100 * 40 < 100 * 0 + _close_size * 100
    /\ ExitShort(ScenarioShort, 700)
    /\ ~(100 * 700 < 100 * 0 + _close_size * 100)
    /\ 100 * 700 > 100 * 0 + _stop_loss_size * 100
    /\ [][InClosingLoop =>
            \A tp \in OpenPositions :
                (tp.ticket_a < 0 /\ tp.pair \in Range(_selected_pair)) =>
                    IF \/ 100 * FrozenError(tp) < 100 * tp.mean_error + _close_size * tp.epsilon
                       \/ 100 * FrozenError(tp) > 100 * tp.mean_error + _stop_loss_size * tp.epsilon
                    THEN /\ tp.pair \notin Keys(_trading_pairs')
                         /\ IsClosingPair(OrdersOf(NewOrders, tp.pair), tp)
                    ELSE /\ tp \in Range(_trading_pairs')
                         /\ OrdersOf(NewOrders, tp.pair) = <<>>]_vars

\* the closing loop has just closed a short spread entered under mean_error 0
\* and epsilon 1 at error 7, above the stop-loss band and outside the close band
C7_Witness ==
    /\ pc = "entry"
    /\ FirstCycle
    /\ \E i \in 1..Len(orders) :
          LET p == orders[i].pair
          IN  /\ orders[i].kind = "exit_short"
              /\ pairs[p].mean_error = 0
              /\ pairs[p].epsilon = 100
              /\ LiveError(pairs[p], p, prices) = 700

-----------------------------------------------------------------------------
\* the error of tp is strictly within closeSize * epsilon of its mean
WithinCloseBand(tp) ==
    /\ 100 * (FrozenError(tp) - tp.mean_error) < _close_size * tp.epsilon
    /\ 100 * (tp.mean_error - FrozenError(tp)) < _close_size * tp.epsilon

\* the error of tp is beyond stopLossSize * epsilon on the losing side
BeyondStopLoss(tp) ==
    \/ tp.ticket_a > 0
       /\ 100 * FrozenError(tp) < 100 * tp.mean_error - _stop_loss_size * tp.epsilon
    \/ tp.ticket_a < 0
       /\ 100 * FrozenError(tp) > 100 * tp.mean_error + _stop_loss_size * tp.epsilon

ScenarioPair ==
    [model |-> Some([intercept |-> 0, slope |-> 1]),
     mean_error |-> 0, epsilon |-> 100, stationary_p |-> Some(1)]

\* the live error of pair p at the current prices
CurrentError(p) ==
    prices[PairA(p)]
        - (pairs[p].model[1].intercept + pairs[p].model[1].slope * prices[PairB(p)])

\* C9: in the entry loop an active pair without a position buys A and sells B
\* (long spread) if and only if its live error is below
\* mean_error - openSize * epsilon, sells A and buys B (short spread) if and
\* only if it is above mean_error + openSize * epsilon, and otherwise, the
\* error on a band included, gets no order and no position; with mean_error 0
\* and epsilon 1 the errors 0, 1 and 2.32 give no entry and 2.5 a short spread.
C9_Entry ==
    /\ EntryKind(ScenarioPair, 0) = "none"
    /\ EntryKind(ScenarioPair, 100) = "none"
    /\ EntryKind(ScenarioPair, 232) = "none"
    /\ EntryKind(ScenarioPair, 250) = "short"
    /\ [][InEntryLoop =>
            \A p \in Range(_selected_pair) :
                p \notin Keys(_trading_pairs) =>
                    LET mine == OrdersOf(NewOrders, p)
                        opened == {tp \in Range(_trading_pairs') : tp.pair = p}
                    IN  IF 100 * CurrentError(p)
                              < 100 * pairs[p].mean_error - _open_size * pairs[p].epsilon
                        THEN /\ Len(mine) = 2
                             /\ mine[1].symbol = PairA(p) /\ mine[1].quantity > 0
                             /\ mine[2].symbol = PairB(p) /\ mine[2].quantity < 0
                             /\ \E tp \in opened :
                                   /\ tp.ticket_a = mine[1].quantity
                                   /\ tp.ticket_b = mine[2].quantity
                        ELSE IF 100 * CurrentError(p)
                              > 100 * pairs[p].mean_error + _open_size * pairs[p].epsilon
                        THEN /\ Len(mine) = 2
                             /\ mine[1].symbol = PairA(p) /\ mine[1].quantity < 0
                             /\ mine[2].symbol = PairB(p) /\ mine[2].quantity > 0
                             /\ \E tp \in opened :
                                   /\ tp.ticket_a = mine[1].quantity
                                   /\ tp.ticket_b = mine[2].quantity
                        ELSE mine = <<>> /\ opened = {}]_vars

\* on the third update the entry loop has opened a short spread (A sold, B
\* bought) at error 2.5 for a flat pair with mean_error 0 and epsilon 1
C9_Witness ==
    /\ pc = "idle"
    /\ time >= 3 * RegenerateDays
    /\ \E p \in Range(_selected_pair) :
          /\ pairs[p].mean_error = 0
          /\ pairs[p].epsilon = 100
          /\ CurrentError(p) = 250
          /\ Len(OrdersOf(orders, p)) = 2
          /\ OrdersOf(orders, p)[1].kind = "short"
          /\ OrdersOf(orders, p)[1].symbol = PairA(p)
          /\ OrdersOf(orders, p)[1].quantity < 0
          /\ OrdersOf(orders, p)[2].quantity > 0

\* C10: every pair has epsilon >= 0, and by the end of an update the entry loop
\* has made no entry order for a pair whose live epsilon is 0.
C10_NoEntryAtZeroEpsilon ==
    /\ \A p \in Pairs : pairs[p].epsilon >= 0
    /\ pc = "idle" =>
          \A i \in 1..Len(orders) :
              orders[i].kind \in EntryKinds => pairs[orders[i].pair].epsilon # 0

-----------------------------------------------------------------------------
\* the absolute value of an order quantity
Abs(x) == IF x < 0 THEN 0 - x ELSE x

\* the shares calculate_order_quantity answers for symbol s when the target is
\* _leverage / n / 2 of the portfolio
SharesFor(s, n) == (100 * Cash * _leverage) \div (n * 2 * prices[s])

\* C11: every entry order of the entry loop is sized for the target
\* _leverage / n / 2 with n the number of pairs in _selected_pair at that
\* update, whatever instrument the shares are counted in.
C11_SizedByActivePairs ==
    [][InEntryLoop =>
        \A i \in 1..Len(NewOrders) :
            NewOrders[i].kind \in EntryKinds =>
                \E s \in Symbols :
                    Abs(NewOrders[i].quantity) = SharesFor(s, Len(_selected_pair))]_vars

\* C12: the two orders of every entry have opposite signs (long spread: A
\* bought, B sold; short spread: A sold, B bought), leg A is sized at the close
\* of instrument A and leg B at the close of instrument B, and the two
\* notionals differ by less than one share.
C12_DollarNeutral ==
    [][InEntryLoop =>
        \A p \in Pairs :
            LET mine == OrdersOf(NewOrders, p)
                sign_a == IF mine[1].kind = "long" THEN 1 ELSE -1
                notional_a == Abs(mine[1].quantity) * prices[PairA(p)]
                notional_b == Abs(mine[2].quantity) * prices[PairB(p)]
            IN  mine # <<>> =>
                    /\ Len(mine) = 2
                    /\ mine[1].symbol = PairA(p) /\ mine[2].symbol = PairB(p)
                    /\ mine[1].quantity * sign_a > 0
                    /\ mine[2].quantity * sign_a < 0
                    /\ mine[1].quantity = sign_a * SharesFor(PairA(p), _pair_num)
                    /\ mine[2].quantity = (0 - sign_a) * SharesFor(PairB(p), _pair_num)
                    /\ Abs(notional_a - notional_b) < prices[PairA(p)] + prices[PairB(p)]]_vars

-----------------------------------------------------------------------------
\* the orders of pair p among `ords` stand next to each other
Together(ords, p) ==
    \A i, j \in 1..Len(ords) :
        (ords[i].pair = p /\ ords[j].pair = p) => (i - j \in {-1, 0, 1})

\* C13: every position that the closing loop closes, by whichever statement,
\* gets its two closing orders next to each other, for instrument A with
\* -ticket_a and for instrument B with -ticket_b, and leaves _trading_pairs in
\* that step; no other step makes a closing order; and in every state the
\* quantities submitted for each leg of a flat pair sum to zero.
C13_ClosesFlatten ==
    /\ [](\A p \in Pairs :
            p \notin Keys(_trading_pairs) => submitted[p] = [a |-> 0, b |-> 0])
    /\ [][/\ InClosingLoop =>
               \A tp \in OpenPositions :
                   (OrdersOf(NewOrders, tp.pair) # <<>> \/ tp \notin Range(_trading_pairs')) =>
                       /\ IsClosingPair(OrdersOf(NewOrders, tp.pair), tp)
                       /\ Together(NewOrders, tp.pair)
                       /\ tp.pair \notin Keys(_trading_pairs')
                       /\ submitted'[tp.pair] = [a |-> 0, b |-> 0]
          /\ ~InClosingLoop =>
               /\ \A i \in 1..Len(NewOrders) : NewOrders[i].kind \notin CloseKinds
               /\ \A tp \in OpenPositions : tp \in Range(_trading_pairs')]_vars

\* the closing loop has just closed one position by the forced close and
\* another one by an exit rule, and both pairs are flat with nothing submitted
\* on balance
C13_Witness ==
    /\ pc = "entry"
    /\ \E i, j \in 1..Len(orders) :
          /\ orders[i].kind = "forced"
          /\ orders[j].kind \in {"exit_long", "exit_short"}
          /\ orders[i].quantity # 0 /\ orders[j].quantity # 0
          /\ \A p \in {orders[i].pair, orders[j].pair} :
                /\ p \notin Keys(_trading_pairs)
                /\ submitted[p] = [a |-> 0, b |-> 0]

\* C14: no position is recorded for a pair when the brokerage left a leg of
\* its entry unfilled: the pair of every unfilled entry order stays flat.
C14_NoPositionOnFailedLeg ==
    \A i \in unfilled :
        /\ orders[i].kind \in EntryKinds
        /\ orders[i].pair \notin Keys(_trading_pairs)

-----------------------------------------------------------------------------
\* _generate_pairs has just returned: the answers it worked from
Refreshed == stats # None
Answers == stats[1]

\* C15: when _generate_pairs has just returned, every pair of _selected_pair
\* had, in that call, a correlation of at least _min_corr_threshold, a
\* cointegration p-value below 0.05 and a stationary_p, the p-value adfuller
\* gave in that call, below 0.05; a pair with correlation 0.95 and
\* cointegration p-value 0.5 is not in it.
C15_MembershipConditions ==
    Refreshed =>
        /\ Range(_selected_pair) \subseteq DOMAIN Answers
        /\ \A p \in Range(_selected_pair) :
              /\ Answers[p].corr >= _min_corr_threshold
              /\ Answers[p].coint_p < 5
              /\ pairs[p].stationary_p = Some(Answers[p].adf_p)
              /\ pairs[p].stationary_p[1] < 5
        /\ \A p \in DOMAIN Answers :
              (Answers[p].corr = 95 /\ Answers[p].coint_p = 50) =>
                  p \notin Range(_selected_pair)

\* a refresh has just selected one pair and left out a pair with correlation
\* 0.95 and cointegration p-value 0.5 and a cointegrated pair whose residuals
\* are not stationary
C15_Witness ==
    /\ pc = "close"
    /\ Refreshed
    /\ _selected_pair # <<>>
    /\ \E p, q \in DOMAIN Answers \ Range(_selected_pair) :
          /\ Answers[p].corr = 95 /\ Answers[p].coint_p = 50
          /\ Answers[q].corr >= _min_corr_threshold
          /\ Answers[q].coint_p < 5
          /\ Answers[q].adf_p >= 5

\* the pairs that passed every filter in the call that has just returned
SurvivorSet ==
    {p \in DOMAIN Answers : /\ Answers[p].corr >= _min_corr_threshold
                            /\ Answers[p].coint_p < 5
                            /\ Answers[p].adf_p < 5}

\* C16: when _generate_pairs has just returned, _selected_pair holds, without
\* repetition, all the survivors of the filters when they number at most
\* _pair_num and otherwise exactly _pair_num of them, none with a lower
\* correlation than a survivor left out, whatever the stationary_p of the
\* pairs.
C16_TopNByCorrelation ==
    Refreshed =>
        LET members == Range(_selected_pair)
        IN  /\ Cardinality(members) = Len(_selected_pair)
            /\ members \subseteq SurvivorSet
            /\ Cardinality(members) =
                  (IF Cardinality(SurvivorSet) <= _pair_num
                   THEN Cardinality(SurvivorSet) ELSE _pair_num)
            /\ \A m \in members : \A x \in SurvivorSet \ members :
                  Answers[m].corr >= Answers[x].corr

\* a refresh with more survivors than the cap has just left out the survivor
\* with the lowest correlation, although its stationary_p is below that of a
\* member
C16_Witness ==
    /\ pc = "close"
    /\ Refreshed
    /\ Cardinality(SurvivorSet) > _pair_num
    /\ \E x \in SurvivorSet \ Range(_selected_pair) :
          /\ \A m \in Range(_selected_pair) : Answers[m].corr > Answers[x].corr
          /\ \E m \in Range(_selected_pair) :
                pairs[x].stationary_p[1] < pairs[m].stationary_p[1]

-----------------------------------------------------------------------------
\* the place of pair p in _selected_pair
PlaceOf(p) == CHOOSE i \in 1..Len(_selected_pair) : _selected_pair[i] = p

\* C17: in every state _selected_pair is in ascending order of the
\* stationary_p of its pairs, and the entry orders of one entry loop come in
\* the order of _selected_pair, hence in non-decreasing stationary_p.
C17_OrderedByStationarity ==
    /\ [](\A i, j \in 1..Len(_selected_pair) :
            i < j => pairs[_selected_pair[i]].stationary_p[1]
                        <= pairs[_selected_pair[j]].stationary_p[1])
    /\ [][InEntryLoop =>
            \A i, j \in 1..Len(NewOrders) :
                (i < j /\ NewOrders[i].kind \in EntryKinds /\ NewOrders[j].kind \in EntryKinds) =>
                    /\ NewOrders[i].pair \in Range(_selected_pair)
                    /\ NewOrders[j].pair \in Range(_selected_pair)
                    /\ PlaceOf(NewOrders[i].pair) <= PlaceOf(NewOrders[j].pair)
                    /\ pairs[NewOrders[i].pair].stationary_p[1]
                          <= pairs[NewOrders[j].pair].stationary_p[1]]_vars

\* an update has ended in which two pairs were entered, the pair that comes
\* later in _pair_list first because its stationary_p is the lower one
C17_Witness ==
    /\ pc = "idle"
    /\ Len(orders) = 4
    /\ orders[1].kind \in EntryKinds /\ orders[3].kind \in EntryKinds
    /\ orders[1].pair > orders[3].pair
    /\ _selected_pair = <<orders[1].pair, orders[3].pair>>
    /\ pairs[orders[1].pair].stationary_p[1] < pairs[orders[3].pair].stationary_p[1]

-----------------------------------------------------------------------------
\* C18: every step other than the refresh of an update on which
\* _regenerate_time is earlier than the time leaves _selected_pair (members and
\* order) and the model, mean_error, epsilon and stationary_p of every pair
\* as they are; an update on which the refresh is not due is made of such
\* steps only.
C18_ChangesOnlyAtRefresh ==
    [][~(pc = "regen" /\ _regenerate_time < time) =>
          (_selected_pair' = _selected_pair /\ pairs' = pairs)]_vars

\* an update on which the refresh was not due (the time is exactly
\* _regenerate_time) has ended, with pairs in the active set and orders made
C18_Witness ==
    /\ pc = "idle"
    /\ time = _regenerate_time
    /\ stats = None
    /\ _selected_pair # <<>>
    /\ orders # <<>>

\* the step being taken is lines 76-78 of on_data
AtSchedule == pc = "regen" /\ pc' = "close"

\* C19: once an update has passed lines 76-78 a refresh has run (the selector
\* runs on the first update); at lines 76-78 of every update the selector runs
\* and sets _regenerate_time to the time plus 5 days if _regenerate_time is
\* earlier than the time, and otherwise does not run and leaves
\* _regenerate_time alone; so a refresh moves _regenerate_time by more than 5
\* days, and two consecutive refreshes are more than 5 days apart.
C19_FiveDaySchedule ==
    /\ []((time > 0 /\ pc # "regen") => _regenerate_time >= 0)
    /\ [][AtSchedule =>
            IF _regenerate_time < time
            THEN /\ stats' # None
                 /\ _regenerate_time' = time + RegenerateDays
                 /\ _regenerate_time >= 0 =>
                       (time - (_regenerate_time - RegenerateDays) > RegenerateDays)
            ELSE /\ stats' = None
                 /\ _regenerate_time' = _regenerate_time
                 /\ _selected_pair' = _selected_pair]_vars
    /\ [][~AtSchedule => (_regenerate_time' = _regenerate_time /\ stats' = None)]_vars

\* the second refresh has just run, on the third update: the second update
\* came exactly 5 days after the first refresh and did not refresh
C19_Witness ==
    /\ pc = "close"
    /\ Refreshed
    /\ Gaps = {RegenerateDays}
    /\ time = 3 * RegenerateDays
    /\ _regenerate_time = time + RegenerateDays

-----------------------------------------------------------------------------
\* the live error of pair p is outside its open band
OutsideOpenBand(p) ==
    \/ 100 * CurrentError(p) < 100 * pairs[p].mean_error - _open_size * pairs[p].epsilon
    \/ 100 * CurrentError(p) > 100 * pairs[p].mean_error + _open_size * pairs[p].epsilon

\* C20: when _generate_pairs has just returned, _selected_pair is its whole
\* result (every survivor up to the cap, in order); the closing loop and the
\* entry loop leave _selected_pair as it is; the closing loop force-closes
\* exactly the positions whose pair is not in it; and the entry loop enters
\* exactly its flat pairs whose error is outside the open band: all the
\* decisions of one update are made on one and the same complete list.
C20_AtomicReplacement ==
    /\ [](Refreshed =>
            /\ Range(_selected_pair) \subseteq SurvivorSet
            /\ Len(_selected_pair) =
                  (IF Cardinality(SurvivorSet) <= _pair_num
                   THEN Cardinality(SurvivorSet) ELSE _pair_num))
    /\ [][(InClosingLoop \/ InEntryLoop) => _selected_pair' = _selected_pair]_vars
    /\ [][InClosingLoop =>
            \A tp \in OpenPositions :
                (\E i \in 1..Len(NewOrders) :
                    NewOrders[i].pair = tp.pair /\ NewOrders[i].kind = "forced")
                <=> tp.pair \notin Range(_selected_pair)]_vars
    /\ [][InEntryLoop =>
            \A p \in Pairs :
                (\E i \in 1..Len(NewOrders) :
                    NewOrders[i].pair = p /\ NewOrders[i].kind \in EntryKinds)
                <=> (/\ p \in Range(_selected_pair)
                     /\ p \notin Keys(_trading_pairs)
                     /\ OutsideOpenBand(p))]_vars

\* an update with a refresh has ended: a position whose pair the refresh left
\* out was force-closed and a pair of the new list was entered, while a
\* position whose pair stayed in the list was kept
C20_Witness ==
    /\ pc = "idle"
    /\ time = 3 * RegenerateDays
    /\ _regenerate_time = time + RegenerateDays
    /\ \E i, j \in 1..Len(orders) :
          /\ orders[i].kind = "forced"
          /\ orders[i].pair \notin Range(_selected_pair)
          /\ orders[j].kind \in EntryKinds
          /\ orders[j].pair \in Range(_selected_pair)
    /\ \E tp \in OpenPositions :
          /\ tp.pair \in Range(_selected_pair)
          /\ OrdersOf(orders, tp.pair) = <<>>

-----------------------------------------------------------------------------
\* C21: the steps of an update come in the order ingest, schedule, closing
\* loop, entry loop: prices and buffers change in the first step only, the
\* active set and the fields of the pairs in the second only, closing orders
\* are made in the third only and entry orders in the fourth only; so in the
\* orders of one update every closing order comes before every entry order.
C21_StepOrder ==
    /\ [][/\ pc = "idle" => pc' = "regen"
          /\ pc = "regen" => pc' = "close"
          /\ pc = "close" => pc' = "entry"
          /\ pc = "entry" => pc' = "idle"]_vars
    /\ [][/\ (prices' # prices \/ held' # held \/ time' # time) => pc = "idle"
          /\ (_selected_pair' # _selected_pair \/ pairs' # pairs) => pc = "regen"
          /\ (pc # "idle" /\ \E i \in 1..Len(NewOrders) : NewOrders[i].kind \in CloseKinds)
                => pc = "close"
          /\ (pc # "idle" /\ \E i \in 1..Len(NewOrders) : NewOrders[i].kind \in EntryKinds)
                => pc = "entry"
          /\ pc # "idle" => SubSeq(orders', 1, Len(orders)) = orders]_vars
    /\ [](\A i, j \in 1..Len(orders) :
            (orders[i].kind \in CloseKinds /\ orders[j].kind \in EntryKinds) => i < j)

\* an update has ended that took new closes, ran a refresh, closed one
\* position and then entered another pair
C21_Witness ==
    /\ pc = "idle"
    /\ time = 3 * RegenerateDays
    /\ _regenerate_time = time + RegenerateDays
    /\ prices[1] # 1000
    /\ Len(orders) = 4
    /\ orders[1].kind \in CloseKinds /\ orders[2].kind \in CloseKinds
    /\ orders[3].kind \in EntryKinds /\ orders[4].kind \in EntryKinds
    /\ orders[1].pair # orders[3].pair

-----------------------------------------------------------------------------
\* the step being taken is a refresh; stats' holds its answers
InRefresh == AtSchedule /\ stats' # None

\* C22: in a refresh, for every pair cointegration_test is called on (its
\* correlation is not below the threshold): when the p-value of coint is at
\* least 0.05 the call returns false (the pair is not selected) and the
\* model, mean_error, epsilon and stationary_p of the pair stay what they
\* were; otherwise all four are the ones computed in this call.
C22_FailedTestLeavesFields ==
    [][InRefresh =>
        \A p \in DOMAIN stats'[1] :
            LET ev == stats'[1][p]
            IN  ev.corr >= _min_corr_threshold =>
                    IF ev.coint_p >= 5
                    THEN /\ pairs'[p] = pairs[p]
                         /\ p \notin Range(_selected_pair')
                         /\ ~CointegrationTest(ev)
                    ELSE /\ pairs'[p].model =
                                Some([intercept |-> ev.intercept, slope |-> ev.slope])
                         /\ pairs'[p].stationary_p = Some(ev.adf_p)
                         /\ pairs'[p].mean_error = ev.mean_error
                         /\ pairs'[p].epsilon = ev.epsilon
                         /\ CointegrationTest(ev)]_vars

\* a refresh has just run in which the test failed for a pair never fitted,
\* still unset, and for a pair fitted in an earlier refresh, which keeps its
\* model of then
C22_Witness ==
    /\ pc = "close"
    /\ Refreshed
    /\ \E p, q \in DOMAIN Answers :
          /\ Answers[p].corr >= _min_corr_threshold /\ Answers[p].coint_p >= 5
          /\ pairs[p] = NewPair
          /\ Answers[q].corr >= _min_corr_threshold /\ Answers[q].coint_p >= 5
          /\ pairs[q].model # None
          /\ pairs[q].epsilon > 0

-----------------------------------------------------------------------------
\* the regression of the evaluation is degenerate: its residuals are all
\* equal, their standard deviation is 0
Degenerate(ev) == ev.epsilon = 0

\* C23: the evaluator fails closed: a pair whose regression in a refresh is
\* degenerate is reported not cointegrated, is not selected, and its model,
\* mean_error and epsilon stay what they were.
C23_FailsClosed ==
    [][InRefresh =>
        \A p \in DOMAIN stats'[1] :
            LET ev == stats'[1][p]
            IN  (ev.corr >= _min_corr_threshold /\ Degenerate(ev)) =>
                    /\ p \notin Range(_selected_pair')
                    /\ pairs'[p].model = pairs[p].model
                    /\ pairs'[p].mean_error = pairs[p].mean_error
                    /\ pairs'[p].epsilon = pairs[p].epsilon]_vars

-----------------------------------------------------------------------------
\* the buffers of both instruments of the pair are ready
BothReady(p) == IsReady(held[PairA(p)]) /\ IsReady(held[PairB(p)])

\* C24: a pair with a buffer that is not ready is not evaluated by a refresh,
\* is not in the active set and holds no position; a pair whose two buffers
\* are ready when a refresh runs is among the pairs it evaluates.
C24_ReadinessGatesCandidates ==
    /\ \A p \in Pairs :
          ~BothReady(p) =>
              /\ Refreshed => p \notin DOMAIN Answers
              /\ p \notin Range(_selected_pair)
              /\ p \notin Keys(_trading_pairs)
    /\ Refreshed => \A p \in Pairs : BothReady(p) => p \in DOMAIN Answers

-----------------------------------------------------------------------------
\* the pairs the band-exit or stop-loss rule closed in this update
ClosedByBands == {orders[i].pair : i \in {j \in 1..Len(orders) :
                        orders[j].kind \in {"exit_long", "exit_short"}}}

\* C25: at the end of an update, a pair closed in it by the band-exit or the
\* stop-loss rule is flat: it holds no position and the entry loop of the
\* update sent no order for it.
C25_ClosedStaysFlat ==
    pc = "idle" =>
        \A p \in ClosedByBands :
            /\ p \notin Keys(_trading_pairs)
            /\ \A i \in 1..Len(orders) :
                  orders[i].pair = p => orders[i].kind \notin EntryKinds

-----------------------------------------------------------------------------
\* C26: every recorded open position is a LongSpread (leg-A quantity > 0) or
\* a ShortSpread (leg-A quantity < 0): none has leg-A quantity 0.
C26_LegANotZero ==
    \A tp \in OpenPositions : tp.ticket_a > 0 \/ tp.ticket_a < 0

-----------------------------------------------------------------------------
\* C27: at the end of every update the pairs holding an open position are
\* members of the active set; when the refresh of the update selected no
\* pair, no position is open.
C27_OpenWithinActiveSet ==
    /\ [](pc = "idle" => Keys(_trading_pairs) \subseteq Range(_selected_pair))
    /\ [](pc \in {"entry", "idle"} /\ _selected_pair = <<>> => _trading_pairs = <<>>)
    /\ [][(InClosingLoop /\ Refreshed /\ _selected_pair = <<>>) =>
              /\ _trading_pairs' = <<>>
              /\ \A tp \in OpenPositions :
                    OrdersOf(NewOrders, tp.pair) = ClosingOrders(tp, "forced")]_vars

\* an update ends whose refresh selected no pair while two positions were
\* open: both were closed by the forced close, nothing is open
C27_Witness ==
    /\ pc = "idle"
    /\ _regenerate_time = time + RegenerateDays
    /\ _selected_pair = <<>>
    /\ _trading_pairs = <<>>
    /\ Len(orders) = 4
    /\ \A i \in 1..Len(orders) : orders[i].kind = "forced"
    /\ orders[1].pair # orders[3].pair

-----------------------------------------------------------------------------
\* the exposure, in hundredths of the portfolio value, the two
\* calculate_order_quantity calls of an entry ask for: leverage/_pair_num/2 a leg
TargetOfEntry == 2 * ((100 * _leverage) \div (_pair_num * 2))

\* C28: at the end of every update at most _pair_num positions are open, and
\* the targets their entries asked for add up to no more than the leverage.
C28_OpenWithinCap ==
    pc = "idle" =>
        /\ Len(_trading_pairs) <= _pair_num
        /\ Cardinality(Keys(_trading_pairs)) = Len(_trading_pairs)
        /\ Len(_trading_pairs) * TargetOfEntry <= 100 * _leverage

\* the first update ends with _pair_num positions open while a third pair
\* survived the filters of the refresh and was cut by the cap
C28_Witness ==
    /\ pc = "idle"
    /\ time = RegenerateDays
    /\ Len(_trading_pairs) = _pair_num
    /\ Len(_trading_pairs) * TargetOfEntry = 100 * _leverage
    /\ \E p \in Pairs \ Range(_selected_pair) :
          /\ pairs[p].model # None
          /\ pairs[p].stationary_p # None
          /\ pairs[p].stationary_p[1] < 5

-----------------------------------------------------------------------------
\* C29: every pair of the active set has a fitted model and a stationary_p;
\* the refresh that selects a pair leaves in it the intercept, slope,
\* mean_error, epsilon and stationary_p it computed, and no step other than a
\* refresh changes the fields of a pair or the active set: what the entry
\* loop reads is what the most recent refresh computed.
C29_FreshModelInActiveSet ==
    /\ [](\A p \in Range(_selected_pair) :
              pairs[p].model # None /\ pairs[p].stationary_p # None)
    /\ [][InRefresh =>
              \A p \in Range(_selected_pair') :
                  /\ p \in DOMAIN stats'[1]
                  /\ pairs'[p] =
                        [model |-> Some([intercept |-> stats'[1][p].intercept,
                                         slope |-> stats'[1][p].slope]),
                         mean_error |-> stats'[1][p].mean_error,
                         epsilon |-> stats'[1][p].epsilon,
                         stationary_p |-> Some(stats'[1][p].adf_p)]]_vars
    /\ [][~InRefresh => pairs' = pairs /\ _selected_pair' = _selected_pair]_vars

\* the second refresh has just selected a pair with a fit other than the one
\* its open position was entered under in the first cycle
C29_Witness ==
    /\ pc = "close"
    /\ Refreshed
    /\ time = 3 * RegenerateDays
    /\ \E tp \in OpenPositions :
          /\ tp.pair \in Range(_selected_pair)
          /\ pairs[tp.pair].model # None
          /\ pairs[tp.pair].model[1].intercept # tp.model_intercept
          /\ pairs[tp.pair].epsilon # tp.epsilon
          /\ pairs[tp.pair].model[1].intercept = Answers[tp.pair].intercept

-----------------------------------------------------------------------------
\* how many of the place_order calls `calls` reported success
Successes(calls) == Cardinality({i \in 1..Len(calls) : calls[i].success})

\* C30: tradesTodayCount never exceeds maxTradesPerDay; execute_trades places
\* an order only while the count of the day, the successes of the call so far
\* included, is below the maximum, and none when the day's count has reached
\* it; the count ends as the count of the day plus the successes of the call;
\* and it goes down only in an execute_trades that finds currentDay other
\* than the UTC date, within a day it never does.
C30_DailyTradeCap ==
    /\ [](tradesTodayCount <= maxTradesPerDay)
    /\ [][step = "execute" =>
              /\ CountOfToday >= maxTradesPerDay => sent' = <<>>
              /\ \A i \in 1..Len(sent') :
                    CountOfToday + Successes(SubSeq(sent', 1, i - 1)) < maxTradesPerDay
              /\ tradesTodayCount' = CountOfToday + Successes(sent')
              /\ currentDay' = Some(Date(utcnow))]_vars
    /\ [][tradesTodayCount' < tradesTodayCount =>
              /\ step = "execute"
              /\ currentDay # Some(Date(utcnow))]_vars
    /\ [][step # "execute" => tradesTodayCount' = tradesTodayCount]_vars

\* on the second UTC day the count has reached the maximum again, and the
\* execute_trades that has just returned placed no order although a flat
\* symbol with a full window deviates from its mean beyond the threshold
C30_Witness ==
    /\ step = "sleep"
    /\ Date(utcnow) = 1
    /\ currentDay = Some(1)
    /\ tradesTodayCount = maxTradesPerDay
    /\ sent = <<>>
    /\ \A s \in Range(symbols) : Len(priceHistory[s]) >= windowSize
    /\ \E s \in Range(symbols) :
          /\ position[s] = 0
          /\ Sum(priceHistory[s]) # 0
          /\ Deviates(priceHistory[s])

-----------------------------------------------------------------------------
\* the step being taken is execute_trades
InExecuteTrades == step = "execute" /\ step' = "sleep"

\* C31: every order execute_trades places is for a symbol whose net position
\* is 0, whose price history holds windowSize closes, whose rolling mean is not
\* 0 and whose last close is away from the mean by more than
\* deviationThreshold of the mean; it is a sell when the last close is above
\* the mean and a buy when it is below.
C31_EntryConditions ==
    [][InExecuteTrades =>
        \A i \in 1..Len(sent') :
            LET s == sent'[i].symbol
                history == priceHistory[s]
            IN  /\ position[s] = 0
                /\ Len(history) = windowSize
                /\ Sum(history) # 0
                /\ Deviates(history)
                /\ Excess(history) > 0 => sent'[i].side = "sell" /\ sent'[i].units < 0
                /\ Excess(history) < 0 => sent'[i].side = "buy" /\ sent'[i].units > 0]_vars

-----------------------------------------------------------------------------
\* the place_order calls of `calls` made for symbol s
CallsFor(calls, s) == SelectSeq(calls, LAMBDA c : c.symbol = s)

\* C32: in execute_trades the count goes up by the number of place_order
\* calls that reported success, and a symbol gets an entry time exactly when
\* its order reported success; a symbol whose order failed keeps its entry
\* time and its position.  Hence, once execute_trades has run, the count is
\* the number of successful orders of the date held in currentDay.
C32_FailedOrderChangesNothing ==
    /\ [][InExecuteTrades =>
              /\ tradesTodayCount' = CountOfToday + Successes(sent')
              /\ \A s \in Range(symbols) :
                    IF \E i \in 1..Len(sent') : sent'[i].symbol = s /\ sent'[i].success
                    THEN entryTimeBySymbol'[s] = Some(utcnow)
                    ELSE /\ entryTimeBySymbol'[s] = entryTimeBySymbol[s]
                         /\ position'[s] = position[s]]_vars
    /\ [](currentDay # None => tradesTodayCount = fills[currentDay[1]])
    /\ [](currentDay = None => tradesTodayCount = 0)

\* execute_trades has just returned: the order of one symbol failed, and the
\* symbol has no entry time and no position; the order of another succeeded
\* and is the one trade counted today
C32_Witness ==
    /\ step = "sleep"
    /\ Len(sent) = 2
    /\ ~sent[1].success
    /\ sent[2].success
    /\ entryTimeBySymbol[sent[1].symbol] = None
    /\ position[sent[1].symbol] = 0
    /\ entryTimeBySymbol[sent[2].symbol] = Some(utcnow)
    /\ tradesTodayCount = 1
    /\ fills[Date(utcnow)] = 1

-----------------------------------------------------------------------------
\* C33: a symbol with a net position other than 0 still has its entry time
\* in entryTimeBySymbol, so manage_open_positions goes on handling it until
\* it is flat.
C33_EntryTimeKeptWhileOpen ==
    \A s \in Range(symbols) : position[s] # 0 => entryTimeBySymbol[s] # None
====
